---- MODULE Spec2Model ----
(***************************************************************************)
(* Search Autos: the search pipeline of src/services/marketcheck.ts        *)
(* (query building, error handling, normalization, local re-sort), the     *)
(* form's submitHandler that produces the criteria, and the App component  *)
(* state machine (handleSearch) that drives it.                            *)
(*                                                                         *)
(* Representation.  An optional JavaScript value (undefined / null or a    *)
(* value) is a sequence of length 0 or 1.  A JavaScript string is a        *)
(* sequence of one-character strings, so that trim, join, slice and the    *)
(* number <-> text conversions are computed, not assumed.  Error messages  *)
(* are opaque texts and are kept as TLA+ strings.                          *)
(***************************************************************************)
EXTENDS Integers, Sequences, FiniteSets, TLC

VARIABLES
    status,        \* App: 'idle' | 'loading' | 'success' | 'error'
    vehicles,      \* App: VehicleListing[]
    errorMessage,  \* App: string | null
    lastSearch,    \* App: SearchCriteria | null
    pending,       \* the searchVehicles calls awaited by handleSearch calls
    inflight,      \* HTTP requests issued by fetch and not yet answered
    response,      \* what the network answered to the search that settled last
    env,           \* import.meta.env: the VITE_* settings the app was built with
    call           \* a single call of one of the pure functions (unit specs)

appVars == <<status, vehicles, errorMessage, lastSearch, pending, inflight,
             response, env>>
vars == <<status, vehicles, errorMessage, lastSearch, pending, inflight,
          response, env, call>>

----------------------------------------------------------------------------
(* Bounds *)

\* Longest sequence handed to sortListings in the unit specification
MaxListings == 3
\* Longest listings array of an HTTP response in the App specification
MaxBatch == 2
\* Most handleSearch calls awaiting searchVehicles at once that are explored
MaxPending == 2

----------------------------------------------------------------------------
(* Optional values and JavaScript strings *)

None == <<>>
Some(v) == <<v>>
IsSome(o) == Len(o) = 1
IsNone(o) == Len(o) = 0
Val(o) == o[1]

\* a ?? b
Coalesce(a, b) == IF IsSome(a) THEN a ELSE b

\* Boolean(x) for an optional number / an optional string
TruthyNumber(o) == IsSome(o) /\ Val(o) # 0
TruthyString(o) == IsSome(o) /\ Len(Val(o)) > 0

Whitespace == {" "}
Digits == <<"0", "1", "2", "3", "4", "5", "6", "7", "8", "9">>

RECURSIVE TrimStart(_)
TrimStart(s) ==
    IF s = <<>> THEN <<>>
    ELSE IF Head(s) \in Whitespace THEN TrimStart(Tail(s)) ELSE s

RECURSIVE TrimEnd(_)
TrimEnd(s) ==
    IF s = <<>> THEN <<>>
    ELSE IF s[Len(s)] \in Whitespace THEN TrimEnd(SubSeq(s, 1, Len(s) - 1)) ELSE s

\* String.prototype.trim
Trim(s) == TrimEnd(TrimStart(s))

\* Array.prototype.join(sep) over an array of strings
RECURSIVE Join(_, _)
Join(parts, sep) ==
    IF parts = <<>> THEN <<>>
    ELSE IF Len(parts) = 1 THEN parts[1]
    ELSE parts[1] \o sep \o Join(Tail(parts), sep)

\* Number.prototype.toString() / template-literal conversion of a non-negative integer
RECURSIVE NumberToString(_)
NumberToString(n) ==
    IF n < 10 THEN <<Digits[n + 1]>>
    ELSE NumberToString(n \div 10) \o <<Digits[(n % 10) + 1]>>

DigitValue(c) == CHOOSE d \in 0..9 : Digits[d + 1] = c
IsDigit(c) == \E d \in 0..9 : Digits[d + 1] = c

\* Number(text) for a non-empty text of decimal digits
RECURSIVE DigitsToNumber(_)
DigitsToNumber(s) ==
    IF Len(s) = 1 THEN DigitValue(s[1])
    ELSE 10 * DigitsToNumber(SubSeq(s, 1, Len(s) - 1)) + DigitValue(s[Len(s)])

AllDigits(s) == Len(s) > 0 /\ \A i \in 1..Len(s) : IsDigit(s[i])

\* Number(text): None stands for NaN
NumberOfText(text) ==
    LET t == Trim(text)
    IN  IF Len(t) = 0 THEN Some(0)
        ELSE IF AllDigits(t) THEN Some(DigitsToNumber(t))
        ELSE IF Len(t) > 1 /\ t[1] = "-" /\ AllDigits(Tail(t))
             THEN Some(0 - DigitsToNumber(Tail(t)))
        ELSE None

\* The longest prefix of decimal digits of s
RECURSIVE DigitPrefix(_)
DigitPrefix(s) ==
    IF Len(s) = 0 \/ ~IsDigit(s[1]) THEN <<>>
    ELSE <<s[1]>> \o DigitPrefix(Tail(s))

\* Number.parseInt(text, 10): None stands for NaN
ParseInt(text) ==
    LET t == TrimStart(text)
        negative == Len(t) > 0 /\ t[1] = "-"
        body == IF Len(t) > 0 /\ t[1] \in {"-", "+"} THEN Tail(t) ELSE t
        digits == DigitPrefix(body)
    IN  IF Len(digits) = 0 THEN None
        ELSE IF negative THEN Some(0 - DigitsToNumber(digits))
        ELSE Some(DigitsToNumber(digits))

\* `${n}` for an integer
IntegerToString(n) ==
    IF n < 0 THEN <<"-">> \o NumberToString(0 - n) ELSE NumberToString(n)

\* `${x}` for a number that may be NaN
NumberOrNaNToString(x) ==
    IF IsSome(x) THEN IntegerToString(Val(x)) ELSE <<"N", "a", "N">>

----------------------------------------------------------------------------
(* types.ts *)

SortOption == {"priceAsc", "priceDesc", "distance", "mileageAsc"}

----------------------------------------------------------------------------
(* config.ts *)

TextKey == <<"K", "E", "Y">>

DefaultEnv ==
    [VITE_MARKETCHECK_API_KEY |-> Some(TextKey), VITE_RESULTS_PER_PAGE |-> None]

\* appConfig: marketcheckApiKey and resultsPerPage (None stands for NaN)
appConfig(e) ==
    [marketcheckApiKey |-> e.VITE_MARKETCHECK_API_KEY,
     resultsPerPage |-> ParseInt(IF IsSome(e.VITE_RESULTS_PER_PAGE)
                                 THEN Val(e.VITE_RESULTS_PER_PAGE)
                                 ELSE <<"2", "4">>)]

MissingMarketcheckKey ==
    "Missing VITE_MARKETCHECK_API_KEY. Add it to your .env file to enable vehicle search."

\* Mutant: only an absent key is rejected, an empty one is accepted
assertMarketcheckApiKey_AbsentOnly(config) ==
    IF IsNone(config.marketcheckApiKey)
    THEN [threw |-> TRUE, message |-> MissingMarketcheckKey]
    ELSE [threw |-> FALSE, apiKey |-> Val(config.marketcheckApiKey)]

\* Throws when the key is absent or empty, else returns it
assertMarketcheckApiKey(config) ==
    IF ~TruthyString(config.marketcheckApiKey)
    THEN [threw |-> TRUE, message |-> MissingMarketcheckKey]
    ELSE [threw |-> FALSE, apiKey |-> Val(config.marketcheckApiKey)]

----------------------------------------------------------------------------
(* marketcheck.ts: Result Sorter *)

compareWithMissing_AscendingOnly(aValue, bValue, direction) ==
    LET aHasValue == IsSome(aValue)
        bHasValue == IsSome(bValue)
    IN  IF ~aHasValue /\ ~bHasValue THEN 0
        ELSE IF ~aHasValue THEN (IF direction = "asc" THEN 1 ELSE -1)
        ELSE IF ~bHasValue THEN (IF direction = "asc" THEN -1 ELSE 1)
        ELSE Val(aValue) - Val(bValue)

compareWithMissing(aValue, bValue, direction) ==
    LET aHasValue == IsSome(aValue)
        bHasValue == IsSome(bValue)
    IN  IF ~aHasValue /\ ~bHasValue THEN 0
        ELSE IF ~aHasValue THEN (IF direction = "asc" THEN 1 ELSE -1)
        ELSE IF ~bHasValue THEN (IF direction = "asc" THEN -1 ELSE 1)
        ELSE IF direction = "asc" THEN Val(aValue) - Val(bValue)
             ELSE Val(bValue) - Val(aValue)

comparators(sortBy, a, b) ==
    CASE sortBy = "priceAsc"   -> compareWithMissing(a.price, b.price, "asc")
      [] sortBy = "priceDesc"  -> compareWithMissing(a.price, b.price, "desc")
      [] sortBy = "distance"   -> compareWithMissing(a.distance, b.distance, "asc")
      [] sortBy = "mileageAsc" -> compareWithMissing(a.mileage, b.mileage, "asc")

\* Array.prototype.sort is a stable sort: an element is placed after every
\* element that does not compare greater than it.
RECURSIVE InsertSorted(_, _, _)
InsertSorted(sorted, x, sortBy) ==
    IF sorted = <<>> THEN <<x>>
    ELSE IF comparators(sortBy, sorted[Len(sorted)], x) <= 0 THEN Append(sorted, x)
    ELSE Append(InsertSorted(SubSeq(sorted, 1, Len(sorted) - 1), x, sortBy),
                sorted[Len(sorted)])

RECURSIVE ArraySort(_, _)
ArraySort(arr, sortBy) ==
    IF arr = <<>> THEN <<>>
    ELSE InsertSorted(ArraySort(SubSeq(arr, 1, Len(arr) - 1), sortBy),
                      arr[Len(arr)], sortBy)

sortedArray_Aliased == "listings"

\* const sorted = [...listings]: sorted names a new array, not the caller's
sortedArray == "sorted"

\* The two arrays when sortListings returns: the caller's listings and the
\* returned array; sort works in place on the array that sorted names
sortListingsArrays(listings, sortBy) ==
    LET copied == [listings |-> listings, sorted |-> listings]
        arrays == IF sortBy \in SortOption
                  THEN [copied EXCEPT ![sortedArray] = ArraySort(@, sortBy)]
                  ELSE copied
    IN  [listings |-> arrays.listings, sorted |-> arrays[sortedArray]]

sortListings(listings, sortBy) == sortListingsArrays(listings, sortBy).sorted

\* The caller's array after sortListings returned
sortListingsInput(listings, sortBy) == sortListingsArrays(listings, sortBy).listings

\* The numeric field a SortOption orders by
SortField(l, sortBy) ==
    CASE sortBy \in {"priceAsc", "priceDesc"} -> l.price
      [] sortBy = "distance" -> l.distance
      [] sortBy = "mileageAsc" -> l.mileage

----------------------------------------------------------------------------
(* marketcheck.ts: Response Normalizer *)

UsedVehicle == <<"U", "s", "e", "d", " ", "V", "e", "h", "i", "c", "l", "e">>

\* Math.random().toString(36).slice(2): the text after the leading "0."
cryptoRandomId(randomText) == SubSeq(randomText, 3, Len(randomText))

\* listing.build ?? {} and listing.dealer ?? {}
EmptyBuild ==
    [year |-> None, make |-> None, model |-> None, trim |-> None,
     body_type |-> None, transmission |-> None, drivetrain |-> None,
     fuel_type |-> None]
EmptyDealer ==
    [name |-> None, city |-> None, state |-> None, phone |-> None,
     website |-> None]

\* [build.year, build.make, build.model, build.trim].filter(Boolean)
BuildParts(build) ==
    (IF TruthyNumber(build.year) THEN <<NumberToString(Val(build.year))>> ELSE <<>>)
    \o (IF TruthyString(build.make) THEN <<Val(build.make)>> ELSE <<>>)
    \o (IF TruthyString(build.model) THEN <<Val(build.model)>> ELSE <<>>)
    \o (IF TruthyString(build.trim) THEN <<Val(build.trim)>> ELSE <<>>)

\* listing.heading ?? [...].filter(Boolean).join(' ').trim()
computedTitle(listing, build) ==
    IF IsSome(listing.heading) THEN Val(listing.heading)
    ELSE Trim(Join(BuildParts(build), <<" ">>))

\* listing.media?.photo_links?.[0]
FirstPhoto(listing) ==
    IF IsSome(listing.media) /\ IsSome(Val(listing.media).photo_links)
       /\ Len(Val(Val(listing.media).photo_links)) > 0
    THEN Some(Val(Val(listing.media).photo_links)[1])
    ELSE None

\* dealer.website ?? listing.website ?? listing.scraped_listing_url
resolveDealerWebsite(listing, dealer) ==
    Coalesce(dealer.website, Coalesce(listing.website, listing.scraped_listing_url))

\* Mutant: the last fallback of the link is the resolved dealerWebsite
resolveListingUrl_ViaDealerWebsite(listing, dealer) ==
    Coalesce(listing.vdp_url,
             Coalesce(listing.scraped_listing_url, resolveDealerWebsite(listing, dealer)))

\* listing.vdp_url ?? listing.scraped_listing_url ?? dealer.website ?? undefined
resolveListingUrl(listing, dealer) ==
    Coalesce(listing.vdp_url, Coalesce(listing.scraped_listing_url, dealer.website))

normalizeListing(listing, randomText) ==
    LET build == IF IsSome(listing.build) THEN Val(listing.build) ELSE EmptyBuild
        dealer == IF IsSome(listing.dealer) THEN Val(listing.dealer) ELSE EmptyDealer
        id == IF IsSome(listing.id) THEN Val(listing.id)
              ELSE IF IsSome(listing.vin) THEN Val(listing.vin)
              ELSE cryptoRandomId(randomText)
        title == computedTitle(listing, build)
    IN  [id |-> id,
         title |-> IF Len(title) > 0 THEN title ELSE UsedVehicle,
         price |-> Coalesce(listing.price, listing.ref_price),
         mileage |-> Coalesce(listing.miles, listing.mileage),
         distance |-> Coalesce(listing.dist, listing.distance),
         exteriorColor |-> listing.exterior_color,
         interiorColor |-> listing.interior_color,
         year |-> build.year,
         make |-> build.make,
         model |-> build.model,
         trim |-> build.trim,
         bodyType |-> build.body_type,
         transmission |-> build.transmission,
         drivetrain |-> build.drivetrain,
         fuelType |-> build.fuel_type,
         dealerName |-> dealer.name,
         dealerCity |-> dealer.city,
         dealerState |-> dealer.state,
         dealerPhone |-> dealer.phone,
         dealerWebsite |-> resolveDealerWebsite(listing, dealer),
         listingUrl |-> resolveListingUrl(listing, dealer),
         imageUrl |-> FirstPhoto(listing)]

----------------------------------------------------------------------------
(* SearchForm: formSchema and submitHandler *)

CurrentYear == 2026

\* z.string().trim().optional()
zodTrim(o) == IF IsSome(o) THEN Some(Trim(Val(o))) ELSE None

\* The parsed (trimmed) form values
formSchemaParse(input) ==
    [location |-> input.location, radius |-> input.radius,
     make |-> zodTrim(input.make), model |-> zodTrim(input.model),
     color |-> zodTrim(input.color),
     minYear |-> zodTrim(input.minYear), maxYear |-> zodTrim(input.maxYear),
     minMiles |-> zodTrim(input.minMiles), maxMiles |-> zodTrim(input.maxMiles),
     minPrice |-> zodTrim(input.minPrice), maxPrice |-> zodTrim(input.maxPrice),
     sortBy |-> input.sortBy]

\* optionalNumericString(label, {min}): empty values pass, others must be
\* numbers, and at least min when a min is given (hasMin)
optionalNumericStringOk(o, hasMin, min) ==
    IF ~TruthyString(o) THEN TRUE
    ELSE IF IsNone(NumberOfText(Val(o))) THEN FALSE
    ELSE hasMin => Val(NumberOfText(Val(o))) >= min

\* toNumber of superRefine
toNumber(o) == IF ~TruthyString(o) THEN None ELSE NumberOfText(Val(o))

\* min && max && min > max
BoundsCrossed(min, max) ==
    TruthyNumber(min) /\ TruthyNumber(max) /\ Val(min) > Val(max)

\* minYear && (minYear < 1900 || minYear > currentYear)
YearOutOfRange(y) == TruthyNumber(y) /\ (Val(y) < 1900 \/ Val(y) > CurrentYear)

\* The resolver accepts the values (handleSubmit then calls submitHandler)
formSchemaValid(values) ==
    /\ IsSome(values.location)
    /\ values.radius >= 1 /\ values.radius <= 500
    /\ IsSome(values.make) => Len(Val(values.make)) <= 50
    /\ IsSome(values.model) => Len(Val(values.model)) <= 50
    /\ IsSome(values.color) => Len(Val(values.color)) <= 30
    /\ optionalNumericStringOk(values.minYear, FALSE, 0)
    /\ optionalNumericStringOk(values.maxYear, FALSE, 0)
    /\ optionalNumericStringOk(values.minMiles, TRUE, 0)
    /\ optionalNumericStringOk(values.maxMiles, TRUE, 0)
    /\ optionalNumericStringOk(values.minPrice, TRUE, 0)
    /\ optionalNumericStringOk(values.maxPrice, TRUE, 0)
    /\ ~YearOutOfRange(toNumber(values.minYear))
    /\ ~YearOutOfRange(toNumber(values.maxYear))
    /\ ~BoundsCrossed(toNumber(values.minYear), toNumber(values.maxYear))
    /\ ~BoundsCrossed(toNumber(values.minMiles), toNumber(values.maxMiles))
    /\ ~BoundsCrossed(toNumber(values.minPrice), toNumber(values.maxPrice))

sanitizeText(value) ==
    IF ~TruthyString(value) THEN None
    ELSE IF Len(Trim(Val(value))) > 0 THEN Some(Trim(Val(value))) ELSE None

parseOptionalNumber(value) ==
    IF ~TruthyString(value) THEN None
    ELSE IF Len(Trim(Val(value))) = 0 THEN None
    ELSE NumberOfText(Trim(Val(value)))

\* The SearchCriteria submitHandler passes to onSearch
submitHandler(values) ==
    [location |-> Val(values.location),
     radius |-> values.radius,
     make |-> sanitizeText(values.make),
     model |-> sanitizeText(values.model),
     color |-> sanitizeText(values.color),
     minYear |-> parseOptionalNumber(values.minYear),
     maxYear |-> parseOptionalNumber(values.maxYear),
     minMiles |-> parseOptionalNumber(values.minMiles),
     maxMiles |-> parseOptionalNumber(values.maxMiles),
     minPrice |-> parseOptionalNumber(values.minPrice),
     maxPrice |-> parseOptionalNumber(values.maxPrice),
     sortBy |-> values.sortBy]

----------------------------------------------------------------------------
(* marketcheck.ts: Query Builder *)

TextAsc == <<"a", "s", "c">>
TextDesc == <<"d", "e", "s", "c">>
TextPrice == <<"p", "r", "i", "c", "e">>
TextDistance == <<"d", "i", "s", "t", "a", "n", "c", "e">>
TextMiles == <<"m", "i", "l", "e", "s">>
TextUsed == <<"u", "s", "e", "d">>

SORT_MAPPING_MilesDescending(sortBy) ==
    CASE sortBy = "priceAsc"   -> [sortBy |-> TextPrice, sortOrder |-> Some(TextAsc)]
      [] sortBy = "priceDesc"  -> [sortBy |-> TextPrice, sortOrder |-> Some(TextDesc)]
      [] sortBy = "distance"   -> [sortBy |-> TextDistance, sortOrder |-> Some(TextAsc)]
      [] sortBy = "mileageAsc" -> [sortBy |-> TextMiles, sortOrder |-> Some(TextDesc)]

SORT_MAPPING(sortBy) ==
    CASE sortBy = "priceAsc"   -> [sortBy |-> TextPrice, sortOrder |-> Some(TextAsc)]
      [] sortBy = "priceDesc"  -> [sortBy |-> TextPrice, sortOrder |-> Some(TextDesc)]
      [] sortBy = "distance"   -> [sortBy |-> TextDistance, sortOrder |-> Some(TextAsc)]
      [] sortBy = "mileageAsc" -> [sortBy |-> TextMiles, sortOrder |-> Some(TextAsc)]

\* `${min}-${max}` with min = criteria.min ?? defaultMin, max = criteria.max ?? defaultMax
RangeText(min, max, defaultMin, defaultMax) ==
    (IF IsSome(min) THEN IntegerToString(Val(min)) ELSE defaultMin)
    \o <<"-">> \o
    (IF IsSome(max) THEN IntegerToString(Val(max)) ELSE defaultMax)

\* if (criteria.min || criteria.max) searchParams.set(name, `${min}-${max}`)
rangeParam(min, max, defaultMin, defaultMax) ==
    IF TruthyNumber(min) \/ TruthyNumber(max)
    THEN Some(RangeText(min, max, defaultMin, defaultMax))
    ELSE None

textParam_Unguarded(value) ==
    IF IsSome(value) THEN value
    ELSE Some(<<"u", "n", "d", "e", "f", "i", "n", "e", "d">>)

\* if (criteria.make) searchParams.set('make', criteria.make)
textParam(value) ==
    IF TruthyString(value) THEN value ELSE None

\* Math.max(1, Math.min(resultsPerPage, 50)); None stands for NaN
ClampRows(resultsPerPage) ==
    IF IsNone(resultsPerPage) THEN None
    ELSE LET capped == IF Val(resultsPerPage) < 50 THEN Val(resultsPerPage) ELSE 50
         IN  Some(IF capped > 1 THEN capped ELSE 1)

\* The query parameters searchVehicles sets on the request URL
searchParams(criteria, key, config) ==
    LET sortConfig == SORT_MAPPING(criteria.sortBy)
    IN  [api_key |-> Some(key),
         latitude |-> Some(IntegerToString(criteria.location.lat)),
         longitude |-> Some(IntegerToString(criteria.location.lng)),
         radius |-> Some(IntegerToString(criteria.radius)),
         car_type |-> Some(TextUsed),
         start |-> Some(<<"0">>),
         rows |-> Some(NumberOrNaNToString(ClampRows(config.resultsPerPage))),
         make |-> textParam(criteria.make),
         model |-> textParam(criteria.model),
         exterior_color |-> textParam(criteria.color),
         year_range |-> rangeParam(criteria.minYear, criteria.maxYear,
                                   <<"2", "0", "0", "0">>, <<"2", "0", "3", "0">>),
         miles_range |-> rangeParam(criteria.minMiles, criteria.maxMiles,
                                    <<"0">>, <<"1", "0", "0", "0">>),
         price_range |-> rangeParam(criteria.minPrice, criteria.maxPrice,
                                    <<"0">>, <<"1", "0", "0", "0", "0", "0">>),
         sort_by |-> Some(sortConfig.sortBy),
         sort_order |-> sortConfig.sortOrder]

----------------------------------------------------------------------------
(* marketcheck.ts: searchVehicles after the fetch call *)

FallbackMessage == "Unable to fetch vehicles from Marketcheck."
NullListingsError == "Cannot read properties of null (reading 'listings')"
NullRecordError == "Cannot read properties of null (reading 'build')"
JsonSyntaxError == "Unexpected token < in JSON at position 0"
FetchError == "Failed to fetch"

\* String(message) for a JSON string or a JSON null
StringOf(value) == IF value.type = "null" THEN "null" ELSE value.text

\* The message read from a non-success response, or null (None)
safeParseError(resp) ==
    IF resp.body.parseable
    THEN IF resp.body.kind = "object" /\ IsSome(resp.body.message)
         THEN Some(StringOf(Val(resp.body.message)))
         ELSE None
    ELSE IF resp.statusText # "" THEN Some(resp.statusText) ELSE None

\* Mutant: payload.listings is used without the Array.isArray test
payloadListings_Unchecked(body) ==
    IF body.kind = "null" THEN None
    ELSE IF IsSome(body.listings) /\ Val(body.listings).isArray
         THEN Some(Val(body.listings).items)
         ELSE None

\* Array.isArray(payload.listings) ? payload.listings : []
\* None: reading .listings of a null payload throws
payloadListings(body) ==
    IF body.kind = "null" THEN None
    ELSE IF IsSome(body.listings) /\ Val(body.listings).isArray
         THEN Some(Val(body.listings).items)
         ELSE Some(<<>>)

\* Mutant: build fields are read without guarding against a missing build
normalizeAll_UnguardedBuild(items, randoms) ==
    IF \E i \in 1..Len(items) : IsNone(items[i]) \/ IsNone(Val(items[i]).build)
    THEN None
    ELSE Some([i \in 1..Len(items) |-> normalizeListing(Val(items[i]), randoms[i])])

\* listings.map(normalizeListing); None: a null element makes normalizeListing throw
normalizeAll(items, randoms) ==
    IF \E i \in 1..Len(items) : IsNone(items[i])
    THEN None
    ELSE Some([i \in 1..Len(items) |-> normalizeListing(Val(items[i]), randoms[i])])

Thrown(message) == [threw |-> TRUE, message |-> message, listings |-> <<>>]
Returned(listings) == [threw |-> FALSE, message |-> "", listings |-> listings]

\* What the promise of searchVehicles settles with once fetch has settled
searchVehiclesOutcome(resp, criteria) ==
    IF resp.kind = "network" THEN Thrown(FetchError)
    ELSE IF ~resp.ok
    THEN LET errorBody == safeParseError(resp)
         IN  Thrown(IF IsSome(errorBody) THEN Val(errorBody) ELSE FallbackMessage)
    ELSE IF ~resp.body.parseable THEN Thrown(JsonSyntaxError)
    ELSE LET listings == payloadListings(resp.body)
         IN  IF IsNone(listings) THEN Thrown(NullListingsError)
             ELSE LET normalized == normalizeAll(Val(listings), resp.randoms)
                  IN  IF IsNone(normalized) THEN Thrown(NullRecordError)
                      ELSE Returned(sortListings(Val(normalized), criteria.sortBy))

\* searchVehicles up to and including the fetch call
searchVehiclesRequest(criteria, e) ==
    LET config == appConfig(e)
        key == assertMarketcheckApiKey(config)
    IN  IF key.threw
        THEN [criteria |-> criteria, threw |-> TRUE, message |-> key.message,
              url |-> None]
        ELSE [criteria |-> criteria, threw |-> FALSE, message |-> "",
              url |-> Some(searchParams(criteria, key.apiKey, config))]

----------------------------------------------------------------------------
(* Inputs: raw listing records as the upstream API may deliver them *)

\* The sequences over S of length at most n
RECURSIVE SeqsUpTo(_, _)
SeqsUpTo(S, n) ==
    IF n = 0 THEN {<<>>}
    ELSE LET shorter == SeqsUpTo(S, n - 1)
         IN  shorter \cup {Append(q, x) : q \in {r \in shorter : Len(r) = n - 1}, x \in S}

\* A MarketcheckListing with every field absent
BlankRaw ==
    [id |-> None, vin |-> None, heading |-> None, price |-> None, miles |-> None,
     mileage |-> None, dist |-> None, distance |-> None, exterior_color |-> None,
     interior_color |-> None, media |-> None, dealer |-> None, build |-> None,
     vdp_url |-> None, ref_price |-> None, scraped_listing_url |-> None,
     website |-> None]

TextLX == <<"L", "X">>
TextHonda == <<"H", "o", "n", "d", "a">>
TextCivic == <<"C", "i", "v", "i", "c">>
TextEX == <<"E", "X">>
UrlVdp == <<"v", "d", "p">>
UrlScraped == <<"s", "c", "r">>
UrlDealer == <<"d", "l", "r">>
UrlSite == <<"w", "e", "b">>

\* Math.random().toString(36): "0" when the generator returns 0, else "0.<digits>"
RandomTexts == {<<"0">>, <<"0", ".", "k">>, <<"0", ".", "4", "f", "z">>}

Headings ==
    {None, Some(<<>>), Some(<<" ">>), Some(TextLX), Some(<<" ">> \o TextLX \o <<" ">>)}

Builds ==
    {None} \cup
    {Some([EmptyBuild EXCEPT !.year = y, !.make = mk, !.model = md, !.trim = tr]) :
        y \in {None, Some(0), Some(2020)},
        mk \in {None, Some(<<>>), Some(TextHonda)},
        md \in {None, Some(TextCivic)},
        tr \in {None, Some(TextEX)}}

Dealers ==
    {None, Some(EmptyDealer), Some([EmptyDealer EXCEPT !.website = Some(UrlDealer)])}

\* Records exercising the title, link and identifier fallback chains
RawRecords ==
    {[BlankRaw EXCEPT !.id = i, !.vin = vn, !.heading = h, !.build = b,
                      !.dealer = d, !.vdp_url = v, !.scraped_listing_url = sc,
                      !.website = w] :
        i \in {None, Some(<<"i", "d">>)},
        vn \in {None, Some(<<"V", "1">>)},
        h \in Headings, b \in Builds, d \in Dealers,
        v \in {None, Some(UrlVdp)},
        sc \in {None, Some(UrlScraped)},
        w \in {None, Some(UrlSite)}}

\* A place chosen from the autocomplete suggestions
SampleLocation ==
    [description |-> <<"E", "l", "g", "i", "n">>, city |-> <<"E", "l", "g", "i", "n">>,
     state |-> <<"I", "L">>, lat |-> 42, lng |-> -88]

\* The form as first rendered (defaultValues), with a location selected
DefaultForm ==
    [location |-> Some(SampleLocation), radius |-> 25,
     make |-> Some(<<>>), model |-> Some(<<>>), color |-> Some(<<>>),
     minYear |-> None, maxYear |-> None, minMiles |-> None, maxMiles |-> None,
     minPrice |-> None, maxPrice |-> None, sortBy |-> "priceAsc"]

\* What the numeric inputs can hold: untouched, cleared, or a typed number
YearTexts == {None, Some(<<"2", "0", "1", "5">>), Some(<<"2", "0", "2", "0">>)}
MilesTexts ==
    {None, Some(<<>>), Some(<<"0">>), Some(<<"5", "0", "0">>),
     Some(<<"2", "0", "0", "0", "0">>)}
PriceTexts == {None, Some(<<"0">>), Some(<<"1", "5", "0", "0", "0">>)}

\* Forms that differ in the six range inputs
RangeForms ==
    {[DefaultForm EXCEPT !.minYear = y1, !.maxYear = y2, !.minMiles = m1,
                         !.maxMiles = m2, !.minPrice = p1, !.maxPrice = p2] :
        y1 \in YearTexts, y2 \in YearTexts, m1 \in MilesTexts, m2 \in MilesTexts,
        p1 \in PriceTexts, p2 \in PriceTexts}

\* Forms that differ in the text filters and the sort option
FilterForms ==
    {[DefaultForm EXCEPT !.make = mk, !.model = md, !.color = c, !.sortBy = sb] :
        mk \in {Some(<<>>), Some(<<" ">>), Some(TextHonda),
                Some(<<" ">> \o TextHonda \o <<" ">>)},
        md \in {Some(<<>>), Some(TextCivic)},
        c \in {Some(<<>>), Some(<<" ", " ">>), Some(<<"B", "l", "u", "e">>)},
        sb \in SortOption}

\* Values of VITE_RESULTS_PER_PAGE
ResultsPerPageTexts ==
    {None, Some(<<"1", "2">>), Some(<<"0">>), Some(<<"-", "5">>),
     Some(<<"1", "0", "0">>), Some(<<"a", "b", "c">>)}

\* A fully populated record
FullRaw ==
    [BlankRaw EXCEPT
        !.id = Some(<<"i", "d">>), !.vin = Some(<<"V", "1">>),
        !.heading = Some(TextLX), !.price = Some(30000), !.miles = Some(500),
        !.dist = Some(12), !.exterior_color = Some(<<"B", "l", "u", "e">>),
        !.media = Some([photo_links |-> Some(<<UrlSite>>)]),
        !.dealer = Some([EmptyDealer EXCEPT !.website = Some(UrlDealer)]),
        !.build = Some([EmptyBuild EXCEPT !.year = Some(2020), !.make = Some(TextHonda)]),
        !.vdp_url = Some(UrlVdp)]

\* Elements of an upstream listings array: a record with nothing in it (no
\* fields, no parent objects), a populated record, or JSON null
BatchItems == {Some(BlankRaw), Some(FullRaw), None}

NoBody == [parseable |-> FALSE, kind |-> "none", message |-> None, listings |-> None]
JsonNull == [parseable |-> TRUE, kind |-> "null", message |-> None, listings |-> None]
JsonPrimitive ==
    [parseable |-> TRUE, kind |-> "primitive", message |-> None, listings |-> None]
JsonObject(message, listings) ==
    [parseable |-> TRUE, kind |-> "object", message |-> message, listings |-> listings]

\* The message member of an error body: absent, "", a text, or null
BodyMessages ==
    {None, Some([type |-> "string", text |-> ""]),
     Some([type |-> "string", text |-> "Invalid API key"]),
     Some([type |-> "null", text |-> ""])}

\* The listings member of a payload: absent, not an array, or an array
BodyListings ==
    {None, Some([isArray |-> FALSE, items |-> <<>>])} \cup
    {Some([isArray |-> TRUE, items |-> items]) : items \in SeqsUpTo(BatchItems, MaxBatch)}

StatusTexts == {"", "Internal Server Error"}

NoRandoms == <<>>

\* Non-success HTTP responses
ErrorResponses ==
    {[kind |-> "http", ok |-> FALSE, statusText |-> st, body |-> b, randoms |-> NoRandoms] :
        st \in StatusTexts,
        b \in {NoBody, JsonNull, JsonPrimitive} \cup
              {JsonObject(m, None) : m \in BodyMessages}}

\* Success HTTP responses
OkBodies ==
    {NoBody, JsonNull, JsonPrimitive} \cup {JsonObject(None, l) : l \in BodyListings}

\* fetch rejects (no HTTP response at all)
NetworkFailure ==
    [kind |-> "network", ok |-> FALSE, statusText |-> "", body |-> NoBody,
     randoms |-> NoRandoms]

BodyItems(body) ==
    IF IsSome(body.listings) /\ Val(body.listings).isArray
    THEN Val(body.listings).items ELSE <<>>

\* Forms submitted to the App
AppForms ==
    {[DefaultForm EXCEPT !.sortBy = sb, !.minMiles = m] :
        sb \in SortOption, m \in {None, Some(<<"5", "0", "0">>)}}

\* Values of VITE_MARKETCHECK_API_KEY
ApiKeys == {None, Some(<<>>), Some(TextKey)}

\* Values of the numeric sort fields
SortKeys == {None, Some(10000), Some(30000)}

\* Listings as searchVehicles hands them to sortListings: normalized records
\* that differ in identifier and in the numeric fields
SortItems ==
    {normalizeListing([BlankRaw EXCEPT !.id = Some(i), !.price = p, !.miles = m,
                                       !.dist = m],
                      <<"0">>) :
        i \in {<<"a">>}, p \in SortKeys, m \in SortKeys}

----------------------------------------------------------------------------
(* The App state before the first search (used, frozen, by the unit specs) *)

NoCall == [fn |-> "none"]

AppInit ==
    /\ status = "idle"
    /\ vehicles = <<>>
    /\ errorMessage = None
    /\ lastSearch = None
    /\ pending = <<>>
    /\ inflight = <<>>
    /\ response = None

----------------------------------------------------------------------------
(* App: handleSearch *)

Init ==
    /\ AppInit
    /\ \E key \in ApiKeys : env = [DefaultEnv EXCEPT !.VITE_MARKETCHECK_API_KEY = key]
    /\ call = NoCall

\* The sequence s without its element at position i
RemoveAt(s, i) == SubSeq(s, 1, i - 1) \o SubSeq(s, i + 1, Len(s))

\* The sequence s without its first element equal to x
RECURSIVE RemoveFirst(_, _)
RemoveFirst(s, x) ==
    IF s = <<>> THEN <<>>
    ELSE IF Head(s) = x THEN Tail(s)
    ELSE <<Head(s)>> \o RemoveFirst(Tail(s), x)

SubmitEnabled_Always == TRUE

\* The submit button is disabled while isSearching (status === 'loading')
SubmitEnabled == status # "loading"

\* The form is submitted with valid values: submitHandler calls handleSearch,
\* which runs up to its await of searchVehicles.  handleSearch has no guard of
\* its own: every call it is given starts a searchVehicles call, which joins
\* the calls being awaited
HandleSearch(form) ==
    /\ SubmitEnabled
    /\ Len(pending) < MaxPending
    /\ formSchemaValid(formSchemaParse(form))
    /\ LET criteria == submitHandler(formSchemaParse(form))
           request == searchVehiclesRequest(criteria, env)
       IN  /\ status' = "loading"
           /\ errorMessage' = None
           /\ lastSearch' = Some(criteria)
           /\ pending' = Append(pending, request)
           /\ inflight' = IF request.threw THEN inflight
                          ELSE Append(inflight, Val(request.url))
    /\ response' = None
    /\ UNCHANGED <<vehicles, env, call>>

\* The listings shown: the results section is rendered only in status
\* 'success'
RenderedVehicles == IF status = "success" THEN vehicles ELSE <<>>

Resume_KeepOnError(i, outcome) ==
    /\ IF outcome.threw
       THEN /\ status' = "error"
            /\ errorMessage' = Some(outcome.message)
            /\ UNCHANGED vehicles
       ELSE /\ vehicles' = outcome.listings
            /\ status' = "success"
            /\ UNCHANGED errorMessage
    /\ pending' = RemoveAt(pending, i)
    /\ UNCHANGED <<lastSearch, env, call>>

\* The handleSearch call awaiting pending[i] resumes after its await with
\* what searchVehicles settled with
Resume(i, outcome) ==
    /\ IF outcome.threw
       THEN /\ vehicles' = <<>>
            /\ status' = "error"
            /\ errorMessage' = Some(outcome.message)
       ELSE /\ vehicles' = outcome.listings
            /\ status' = "success"
            /\ UNCHANGED errorMessage
    /\ pending' = RemoveAt(pending, i)
    /\ UNCHANGED <<lastSearch, env, call>>

\* searchVehicles threw before fetch: the catch block of handleSearch runs
SearchRejectsEarly ==
    \E i \in 1..Len(pending) :
       /\ pending[i].threw
       /\ Resume(i, Thrown(pending[i].message))
       /\ UNCHANGED <<inflight, response>>

\* fetch rejects: no HTTP response arrives
FetchRejects ==
    \E i \in 1..Len(pending) :
       /\ ~pending[i].threw
       /\ inflight' = RemoveFirst(inflight, Val(pending[i].url))
       /\ response' = Some(NetworkFailure)
       /\ Resume(i, searchVehiclesOutcome(NetworkFailure, pending[i].criteria))

\* fetch resolves with a non-success response
FetchResolvesNotOk ==
    \E i \in 1..Len(pending) :
       /\ ~pending[i].threw
       /\ \E resp \in ErrorResponses :
             /\ inflight' = RemoveFirst(inflight, Val(pending[i].url))
             /\ response' = Some(resp)
             /\ Resume(i, searchVehiclesOutcome(resp, pending[i].criteria))

\* fetch resolves with a success response; cryptoRandomId draws one random
\* text per record
FetchResolvesOk ==
    \E i \in 1..Len(pending) :
       /\ ~pending[i].threw
       /\ \E body \in OkBodies :
          \E randoms \in [1..Len(BodyItems(body)) -> RandomTexts] :
             LET resp == [kind |-> "http", ok |-> TRUE, statusText |-> "OK",
                          body |-> body, randoms |-> randoms]
             IN  /\ inflight' = RemoveFirst(inflight, Val(pending[i].url))
                 /\ response' = Some(resp)
                 /\ Resume(i, searchVehiclesOutcome(resp, pending[i].criteria))

Next ==
    \/ \E form \in AppForms : HandleSearch(form)
    \/ SearchRejectsEarly
    \/ FetchRejects
    \/ FetchResolvesNotOk
    \/ FetchResolvesOk

Spec == Init /\ [][Next]_vars

----------------------------------------------------------------------------
(* Unit specification of the Result Sorter: one call of sortListings *)

SortInit ==
    /\ AppInit
    /\ env = DefaultEnv
    /\ \E input \in SeqsUpTo(SortItems, MaxListings), sortBy \in SortOption :
          call = [fn |-> "sortListings", input |-> input, listings |-> input,
                  sortBy |-> sortBy, done |-> FALSE, sorted |-> <<>>]

\* call.listings is the caller's array, call.input its content before the call
CallSortListings ==
    /\ call.fn = "sortListings"
    /\ ~call.done
    /\ call' = [call EXCEPT !.done = TRUE,
                            !.sorted = sortListings(call.listings, call.sortBy),
                            !.listings = sortListingsInput(call.listings, call.sortBy)]
    /\ UNCHANGED appVars

SortNext == CallSortListings

SpecSort == SortInit /\ [][SortNext]_vars

----------------------------------------------------------------------------
(* Unit specification of the Response Normalizer: one call of normalizeListing *)

NormalizeInit ==
    /\ AppInit
    /\ env = DefaultEnv
    /\ \E raw \in RawRecords :
          call = [fn |-> "normalizeListing", listing |-> raw, done |-> FALSE,
                  result |-> None]

CallNormalizeListing ==
    /\ call.fn = "normalizeListing"
    /\ ~call.done
    /\ \E randomText \in RandomTexts :
          call' = [call EXCEPT !.done = TRUE,
                               !.result = Some(normalizeListing(call.listing, randomText))]
    /\ UNCHANGED appVars

NormalizeNext == CallNormalizeListing

SpecNormalize == NormalizeInit /\ [][NormalizeNext]_vars

----------------------------------------------------------------------------
(* Unit specification of the Query Builder: the form is submitted once and  *)
(* searchVehicles builds the query for the criteria it produced             *)

QueryInit ==
    /\ AppInit
    /\ \/ /\ env = DefaultEnv
          /\ \E form \in RangeForms :
                call = [fn |-> "searchParams", form |-> form, stage |-> "form",
                        criteria |-> None, query |-> None]
       \/ /\ \E perPage \in ResultsPerPageTexts :
                env = [DefaultEnv EXCEPT !.VITE_RESULTS_PER_PAGE = perPage]
          /\ \E form \in FilterForms :
                call = [fn |-> "searchParams", form |-> form, stage |-> "form",
                        criteria |-> None, query |-> None]

\* handleSubmit(submitHandler): the resolver validates, then submitHandler runs
SubmitForm ==
    /\ call.fn = "searchParams"
    /\ call.stage = "form"
    /\ LET values == formSchemaParse(call.form)
       IN  IF formSchemaValid(values)
           THEN call' = [call EXCEPT !.stage = "submitted",
                                     !.criteria = Some(submitHandler(values))]
           ELSE call' = [call EXCEPT !.stage = "invalid"]
    /\ UNCHANGED appVars

\* searchVehicles up to the fetch call
BuildQuery ==
    /\ call.fn = "searchParams"
    /\ call.stage = "submitted"
    /\ LET config == appConfig(env)
           key == assertMarketcheckApiKey(config)
       IN  /\ ~key.threw
           /\ call' = [call EXCEPT !.stage = "built",
                                   !.query = Some(searchParams(Val(call.criteria),
                                                               key.apiKey, config))]
    /\ UNCHANGED appVars

QueryNext == SubmitForm \/ BuildQuery

SpecQuery == QueryInit /\ [][QueryNext]_vars

----------------------------------------------------------------------------
(* Claims about searchVehicles and App.handleSearch *)

\* C11: at most one search request is outstanding at any time: while status
\* is 'loading' no second handleSearch or searchVehicles call is running, so
\* the response applied is always that of the search started last.
C11_OneSearchOutstanding ==
    /\ Len(pending) <= 1
    /\ Len(inflight) <= 1
    /\ (status = "loading") <=> (Len(pending) = 1)
    /\ Len(pending) = 1 => pending[1].criteria = Val(lastSearch)

\* Witness of C11: a second search is awaiting its HTTP response after an
\* earlier search delivered listings
C11_Witness ==
    /\ status = "loading"
    /\ Len(pending) = 1
    /\ Len(inflight) = 1
    /\ Len(vehicles) > 0

\* The search started last has settled, and the network had answered it
Settled == IsSome(lastSearch) /\ IsNone(pending)
Answered == Settled /\ IsSome(response)

HasMessage(body) == body.parseable /\ body.kind = "object" /\ IsSome(body.message)

\* C3: for every non-success HTTP response the failure message is the body's
\* message field if the body is JSON-parseable and has one, otherwise the HTTP
\* status text, otherwise the generic fallback message.
C3_ErrorMessageOrder ==
    (Answered /\ Val(response).kind = "http" /\ ~Val(response).ok) =>
        LET resp == Val(response)
        IN  /\ status = "error"
            /\ errorMessage =
                  Some(IF HasMessage(resp.body) THEN StringOf(Val(resp.body.message))
                       ELSE IF resp.statusText # "" THEN resp.statusText
                       ELSE FallbackMessage)

KeyMissing == ~TruthyString(env.VITE_MARKETCHECK_API_KEY)

\* C7: when the API key is absent or empty, searchVehicles fails with the
\* error naming VITE_MARKETCHECK_API_KEY, no request URL is constructed and
\* no HTTP request is issued.
C7_MissingKeyFailsBeforeRequest ==
    KeyMissing =>
        /\ inflight = <<>>
        /\ IsNone(response)
        /\ \A i \in 1..Len(pending) : pending[i].threw /\ IsNone(pending[i].url)
        /\ status # "success"
        /\ Settled => (status = "error" /\ errorMessage = Some(MissingMarketcheckKey))

\* Witness of C7: with an empty key a search was started and has failed
C7_Witness ==
    /\ env.VITE_MARKETCHECK_API_KEY = Some(<<>>)
    /\ Settled
    /\ status = "error"

\* The payload is a JSON object without a listings array
NoListingsArray(resp) ==
    /\ resp.kind = "http" /\ resp.ok
    /\ resp.body.parseable /\ resp.body.kind = "object"
    /\ (IsNone(resp.body.listings) \/ ~Val(resp.body.listings).isArray)

ListingsOfRecords(resp) ==
    /\ resp.kind = "http" /\ resp.ok
    /\ resp.body.parseable /\ resp.body.kind = "object"
    /\ IsSome(resp.body.listings) /\ Val(resp.body.listings).isArray
    /\ \A i \in 1..Len(BodyItems(resp.body)) : IsSome(BodyItems(resp.body)[i])

AlertRendered == status = "error" /\ IsSome(errorMessage) /\ Val(errorMessage) # ""

\* C10: once the request has settled the search is in exactly one terminal
\* outcome: success with the returned listings, or error with an empty vehicle
\* list and a failure message; in every error outcome the alert carrying the
\* message is rendered (the stored errorMessage is non-empty).
C10_SingleTerminalOutcome ==
    Settled =>
        \/ /\ status = "success"
           /\ IsNone(errorMessage)
           /\ Answered
           /\ vehicles = searchVehiclesOutcome(Val(response), Val(lastSearch)).listings
        \/ /\ status = "error"
           /\ vehicles = <<>>
           /\ AlertRendered

\* C12 as stated: from the moment handleSearch starts a new search until it
\* succeeds, and after any failure, the vehicle list App holds contains no
\* listing of an earlier search.
C12_HeldListEmptiedAtSearchStart ==
    status \in {"loading", "error"} => vehicles = <<>>

\* C12 as the code has it: the listings of an earlier search are never shown
\* once a new search has begun, the held list is empty after any failure, and
\* what is shown after a success is exactly the listings of the search started
\* last; while that search is loading the held list is left as it was.
C12_EarlierListingsNeverShown ==
    /\ status \in {"idle", "error"} => vehicles = <<>>
    /\ status = "loading" => RenderedVehicles = <<>>
    /\ status = "success" =>
          /\ Answered
          /\ RenderedVehicles =
                searchVehiclesOutcome(Val(response), Val(lastSearch)).listings

\* Witness of C12: a new search is loading while App still holds, unshown,
\* the listings of the search before it
C12_Witness ==
    /\ status = "loading"
    /\ vehicles # <<>>
    /\ RenderedVehicles = <<>>
    /\ IsNone(response)

----------------------------------------------------------------------------
(* Claims about the Query Builder *)

QueryBuilt == call.fn = "searchParams" /\ call.stage = "built"

Supplied(bound) == IsSome(bound)

\* C4: for each of year, mileage and price the query contains the range
\* parameter if and only if at least one of the field's two bounds was
\* supplied, for every non-negative supplied value including 0.
C4_RangePresentIffBoundSupplied ==
    QueryBuilt =>
        LET c == Val(call.criteria)
            q == Val(call.query)
        IN  /\ IsSome(q.year_range) <=> (Supplied(c.minYear) \/ Supplied(c.maxYear))
            /\ IsSome(q.miles_range) <=> (Supplied(c.minMiles) \/ Supplied(c.maxMiles))
            /\ IsSome(q.price_range) <=> (Supplied(c.minPrice) \/ Supplied(c.maxPrice))

\* The value the default-fill rule prescribes when exactly one bound is supplied
DefaultFilled(min, max, defaultMin, defaultMax) ==
    IF Supplied(min)
    THEN Some(IntegerToString(Val(min)) \o <<"-">> \o defaultMax)
    ELSE Some(defaultMin \o <<"-">> \o IntegerToString(Val(max)))

ExactlyOneSupplied(min, max) == Supplied(min) # Supplied(max)

\* C5: when exactly one bound of a ranged field is supplied, the range
\* parameter is '<min>-<max>' with the unsupplied bound filled by the fixed
\* default (year 2000 / 2030, miles 0 / 1000, price 0 / 100000) and the
\* supplied bound passed through unchanged.
C5_OneBoundDefaultFilled ==
    QueryBuilt =>
        LET c == Val(call.criteria)
            q == Val(call.query)
        IN  /\ ExactlyOneSupplied(c.minYear, c.maxYear) =>
                  q.year_range = DefaultFilled(c.minYear, c.maxYear,
                                               <<"2", "0", "0", "0">>, <<"2", "0", "3", "0">>)
            /\ ExactlyOneSupplied(c.minMiles, c.maxMiles) =>
                  q.miles_range = DefaultFilled(c.minMiles, c.maxMiles,
                                                <<"0">>, <<"1", "0", "0", "0">>)
            /\ ExactlyOneSupplied(c.minPrice, c.maxPrice) =>
                  q.price_range = DefaultFilled(c.minPrice, c.maxPrice, <<"0">>,
                                                <<"1", "0", "0", "0", "0", "0">>)

\* Listings whose price, mileage and distance vary independently
SortSamples ==
    {normalizeListing([BlankRaw EXCEPT !.price = Some(p), !.miles = Some(m),
                                       !.dist = Some(d)], <<"0">>) :
        p \in {10000, 30000}, m \in {10000, 30000}, d \in {10000, 30000}}

\* The VehicleListing field that holds the upstream field a sort_by value names
RemoteSortField(l, sortByText) ==
    CASE sortByText = TextPrice -> Val(l.price)
      [] sortByText = TextMiles -> Val(l.mileage)
      [] sortByText = TextDistance -> Val(l.distance)

Sign(n) == IF n > 0 THEN 1 ELSE IF n < 0 THEN -1 ELSE 0

\* C13: for each of the four SortOption values the built query sets sort_by
\* and sort_order to exactly the pair of the fixed table (priceAsc: price asc,
\* priceDesc: price desc, distance: distance asc, mileageAsc: miles asc), and
\* the local comparator of that option orders by the same field in the same
\* direction.
C13_SortPairMatchesTableAndComparator ==
    QueryBuilt =>
        LET sortBy == Val(call.criteria).sortBy
            q == Val(call.query)
        IN  /\ sortBy = "priceAsc" =>
                  q.sort_by = Some(<<"p", "r", "i", "c", "e">>)
                  /\ q.sort_order = Some(<<"a", "s", "c">>)
            /\ sortBy = "priceDesc" =>
                  q.sort_by = Some(<<"p", "r", "i", "c", "e">>)
                  /\ q.sort_order = Some(<<"d", "e", "s", "c">>)
            /\ sortBy = "distance" =>
                  q.sort_by = Some(<<"d", "i", "s", "t", "a", "n", "c", "e">>)
                  /\ q.sort_order = Some(<<"a", "s", "c">>)
            /\ sortBy = "mileageAsc" =>
                  q.sort_by = Some(<<"m", "i", "l", "e", "s">>)
                  /\ q.sort_order = Some(<<"a", "s", "c">>)
            /\ IsSome(q.sort_by) /\ IsSome(q.sort_order)
            /\ \A a, b \in SortSamples :
                  LET av == RemoteSortField(a, Val(q.sort_by))
                      bv == RemoteSortField(b, Val(q.sort_by))
                  IN  Sign(comparators(sortBy, a, b)) =
                         IF Val(q.sort_order) = <<"a", "s", "c">>
                         THEN Sign(av - bv) ELSE Sign(bv - av)

\* Witness of C13: a query was built for the mileage option and carries miles
C13_Witness ==
    /\ QueryBuilt
    /\ Val(call.criteria).sortBy = "mileageAsc"
    /\ Val(call.query).sort_by = Some(TextMiles)

\* C14: for every value of the results-per-page setting (absent, zero,
\* negative, above 50, or not a number) the rows parameter of the built query
\* is an integer within [1, 50], and it is 24 when the setting is absent.
C14_RowsWithinOneToFifty ==
    QueryBuilt =>
        LET rows == Val(call.query).rows
        IN  /\ \E n \in 1..50 : rows = Some(IntegerToString(n))
            /\ IsNone(env.VITE_RESULTS_PER_PAGE) => rows = Some(<<"2", "4">>)

\* The parameter the filter rule prescribes for a text typed in the form
TrimmedOrOmitted(text) ==
    IF Len(Trim(Val(text))) > 0 THEN Some(Trim(Val(text))) ELSE None

\* C16: the built query contains make, model and exterior_color only when
\* the corresponding criteria string is non-empty after trimming (and then it
\* carries the trimmed text); an absent, empty or whitespace-only value
\* produces no parameter.
C16_TextFiltersOnlyWhenNonBlank ==
    QueryBuilt =>
        LET c == Val(call.criteria)
            q == Val(call.query)
        IN  /\ q.make = TrimmedOrOmitted(call.form.make)
            /\ q.model = TrimmedOrOmitted(call.form.model)
            /\ q.exterior_color = TrimmedOrOmitted(call.form.color)
            /\ IsSome(q.make) <=> (IsSome(c.make) /\ Len(Trim(Val(c.make))) > 0)
            /\ IsSome(q.model) <=> (IsSome(c.model) /\ Len(Trim(Val(c.model))) > 0)
            /\ IsSome(q.exterior_color) <=>
                  (IsSome(c.color) /\ Len(Trim(Val(c.color))) > 0)

\* Witness of C16: a query built from a whitespace-only make, an empty model
\* and a non-blank color carries only exterior_color
C16_Witness ==
    /\ QueryBuilt
    /\ call.form.make = Some(<<" ">>)
    /\ call.form.model = Some(<<>>)
    /\ IsNone(Val(call.query).make)
    /\ IsNone(Val(call.query).model)
    /\ IsSome(Val(call.query).exterior_color)

----------------------------------------------------------------------------
(* Claims about the Result Sorter *)

SortDone == call.fn = "sortListings" /\ call.done

\* C1: for every SortOption and every input, no listing lacking the sort field
\* is placed before a listing that has it (missing values sort last whatever
\* the direction).
C1_MissingSortsLast ==
    SortDone =>
        \A i, j \in 1..Len(call.sorted) :
            (i < j /\ IsNone(SortField(call.sorted[i], call.sortBy)))
                => IsNone(SortField(call.sorted[j], call.sortBy))

\* C17: in the sequence sortListings returns, any two listings that both
\* have the selected sort field appear in numeric order of that field in the
\* requested direction: non-decreasing for priceAsc, distance and mileageAsc,
\* non-increasing for priceDesc, whatever the order of the input.
C17_PresentValuesInDirection ==
    SortDone =>
        \A i, j \in 1..Len(call.sorted) :
            LET iv == SortField(call.sorted[i], call.sortBy)
                jv == SortField(call.sorted[j], call.sortBy)
            IN  (i < j /\ IsSome(iv) /\ IsSome(jv)) =>
                    IF call.sortBy = "priceDesc" THEN Val(iv) >= Val(jv)
                    ELSE Val(iv) <= Val(jv)

\* Witness of C17: a priceDesc call whose input had a cheaper listing before
\* a dearer one
C17_Witness ==
    /\ SortDone
    /\ call.sortBy = "priceDesc"
    /\ \E i, j \in 1..Len(call.input) :
          /\ i < j
          /\ IsSome(call.input[i].price) /\ IsSome(call.input[j].price)
          /\ Val(call.input[i].price) < Val(call.input[j].price)

\* How many positions of seq hold x
Occurrences(seq, x) == Cardinality({i \in 1..Len(seq) : seq[i] = x})

\* C18: sortListings leaves its input sequence unchanged (same elements in
\* the same order after the call) and returns a permutation of it: same
\* length, no listing added, dropped or duplicated.
C18_InputUnchangedOutputPermutation ==
    SortDone =>
        /\ call.listings = call.input
        /\ Len(call.sorted) = Len(call.input)
        /\ \A x \in SortItems :
              Occurrences(call.sorted, x) = Occurrences(call.input, x)

\* Witness of C18: a call that had to reorder, with one listing given twice
C18_Witness ==
    /\ SortDone
    /\ call.sorted # call.input
    /\ \E i, j \in 1..Len(call.input) : i < j /\ call.input[i] = call.input[j]

----------------------------------------------------------------------------
(* Claims about the Response Normalizer *)

NormalizeDone == call.fn = "normalizeListing" /\ call.done

RawBuild(listing) == IF IsSome(listing.build) THEN Val(listing.build) ELSE EmptyBuild
RawDealer(listing) == IF IsSome(listing.dealer) THEN Val(listing.dealer) ELSE EmptyDealer

HeadingNonBlank(listing) ==
    IsSome(listing.heading) /\ Len(Trim(Val(listing.heading))) > 0

\* C15: the id of every normalized listing is the upstream id if present,
\* else the VIN if present, else a generated token, and in every case it is a
\* non-empty string, for every value the random generator can return.
C15_IdNonEmpty ==
    NormalizeDone =>
        LET listing == call.listing
            id == Val(call.result).id
        IN  /\ IsSome(listing.id) => id = Val(listing.id)
            /\ (IsNone(listing.id) /\ IsSome(listing.vin)) => id = Val(listing.vin)
            /\ Len(id) > 0

\* C2: title is the heading when present and non-empty after trimming, else
\* the space-joined present build values (year, make, model, trim), else the
\* literal 'Used Vehicle'; also for an empty or whitespace-only heading.
C2_TitleFallbackChain ==
    NormalizeDone =>
        LET raw == call.listing
            parts == BuildParts(RawBuild(raw))
            title == Val(call.result).title
        IN  IF HeadingNonBlank(raw) THEN title = Val(raw.heading)
            ELSE IF Len(parts) > 0 THEN title = Join(parts, <<" ">>)
            ELSE title = UsedVehicle

\* C6 as stated: listingUrl falls back to the resolved dealerWebsite of the same
\* listing, so a present dealerWebsite implies a present listingUrl.
C6_ListingUrlFallsBackToResolvedDealerWebsite ==
    NormalizeDone =>
        LET raw == call.listing
            out == Val(call.result)
        IN  /\ out.listingUrl =
                  Coalesce(raw.vdp_url, Coalesce(raw.scraped_listing_url, out.dealerWebsite))
            /\ IsSome(out.dealerWebsite) => IsSome(out.listingUrl)

\* C6 (amended): listingUrl is the VDP URL if present, else the scraped listing
\* URL, else the dealer-object website; the top-level website field is never
\* used for it, so listingUrl is absent exactly when all three are absent, and
\* a dealerWebsite shown without a listingUrl is the top-level website.
C6_ListingUrlFallsBackToDealerObjectWebsite ==
    NormalizeDone =>
        LET raw == call.listing
            out == Val(call.result)
        IN  /\ out.listingUrl =
                  Coalesce(raw.vdp_url,
                           Coalesce(raw.scraped_listing_url, RawDealer(raw).website))
            /\ (IsSome(out.dealerWebsite) /\ IsNone(out.listingUrl))
                  => out.dealerWebsite = raw.website

\* Witness of C6: a record with neither VDP nor scraped URL whose dealer object
\* has a website has been normalized, and the link is that website.
C6_Witness ==
    /\ NormalizeDone
    /\ IsNone(call.listing.vdp_url)
    /\ IsNone(call.listing.scraped_listing_url)
    /\ IsSome(call.listing.website)
    /\ Val(call.result).listingUrl = Some(UrlDealer)

====
